---- MODULE Spec2Model ----
(***************************************************************************)
(* usbmux client: the Connection state machine (tag-correlated exchange,   *)
(* listen, connect, process), the Binary and Plist packet codecs at frame  *)
(* granularity, process() over a byte stream, and the USBMux facade's      *)
(* binary-to-plist fallback and connect.                                   *)
(***************************************************************************)
EXTENDS Integers, Sequences, FiniteSets, TLC

(* ---------------------------------------------------------------------- *)
(* Bounds of the model                                                     *)
(* ---------------------------------------------------------------------- *)
\* calls that allocate a tag are made while packet_tag <= MaxTag
MaxTag == 2
\* frames the daemon may have in flight towards the client
MaxQueue == 2
\* DEVICE_ADD frames are delivered while the registry is shorter than this
MaxDevices == 2

(* ---------------------------------------------------------------------- *)
(* Python values                                                           *)
(* ---------------------------------------------------------------------- *)
\* None in an int-valued slot, and in a str-valued slot
None == 0 - 1
NoneStr == "None"

Truthy(n) == n # None /\ n # 0

(* ---------------------------------------------------------------------- *)
(* Opcode and version constants of the two codecs                          *)
(* ---------------------------------------------------------------------- *)
BINARY_TYPE_RESULT == 1
BINARY_TYPE_CONNECT == 2
BINARY_TYPE_LISTEN == 3
BINARY_TYPE_DEVICE_ADD == 4
BINARY_TYPE_DEVICE_REMOVE == 5
BINARY_VERSION == 0
TYPE_PLIST == 8
PLIST_VERSION == 1
TYPE_READ_PAIR == "ReadPairRecord"

Protocols == {"Binary", "Plist"}

TYPE_RESULT(p) == IF p = "Binary" THEN BINARY_TYPE_RESULT ELSE "Result"
TYPE_CONNECT(p) == IF p = "Binary" THEN BINARY_TYPE_CONNECT ELSE "Connect"
TYPE_LISTEN(p) == IF p = "Binary" THEN BINARY_TYPE_LISTEN ELSE "Listen"
TYPE_DEVICE_ADD(p) == IF p = "Binary" THEN BINARY_TYPE_DEVICE_ADD ELSE "Attached"
TYPE_DEVICE_REMOVE(p) == IF p = "Binary" THEN BINARY_TYPE_DEVICE_REMOVE ELSE "Detached"
VERSION(p) == IF p = "Binary" THEN BINARY_VERSION ELSE PLIST_VERSION

(* ---------------------------------------------------------------------- *)
(* Errors: the exception class, the Messages constant, its arguments       *)
(* ---------------------------------------------------------------------- *)
\* a, b: the integer arguments of the message; resp: its response argument
Err(kind, msg, a, b, resp) ==
    [kind |-> kind, msg |-> msg, a |-> a, b |-> b, resp |-> resp]
NoErr == Err("None", "", None, None, "")
MuxError(msg, a, b) == Err("MuxError", msg, a, b, "")
\* MuxError(message.format(response=response))
MuxErrorResponse(msg, response) ==
    Err("MuxError", msg, None, None, ToString(response))
MuxVersionError(expected, current) ==
    Err("MuxVersionError", "INVALID_VERSION", expected, current, "")
\* exceptions that are not MuxError: struct.error, TypeError, KeyError, ...
PyError(kind) == Err(kind, "", None, None, "")

(* ---------------------------------------------------------------------- *)
(* Payload and _Properties dataclasses                                     *)
(* ---------------------------------------------------------------------- *)
\* present: the slot holds a _Properties object (FALSE: it holds None)
NoProperties == [present |-> FALSE, ConnectionType |-> NoneStr,
                 DeviceID |-> None, LocationID |-> None, ProductID |-> None,
                 SerialNumber |-> NoneStr, UDID |-> NoneStr]
Properties(product, serial, location) ==
    [NoProperties EXCEPT !.present = TRUE, !.ProductID = product,
                         !.LocationID = location, !.SerialNumber = serial]

\* Payload(): the two defaults, every optional field None
Payload == [ClientVersionString |-> "qt4i-usbmuxd", ProgName |-> "tcprelay",
            MessageType |-> NoneStr, Number |-> None, DeviceID |-> None,
            PortNumber |-> None, Properties |-> NoProperties,
            PairRecordID |-> NoneStr, PairRecordData |-> NoneStr]

\* a serialized record with no key: in the body of a frame a field that is
\* None stands for a key the dictionary does not have
EmptyDict == [Payload EXCEPT !.ClientVersionString = NoneStr,
                             !.ProgName = NoneStr]

Device(device_id, usb_product_id, serial, location) ==
    [device_id |-> device_id, usb_product_id |-> usb_product_id,
     serial |-> serial, location |-> location]

(* ---------------------------------------------------------------------- *)
(* Wire frames: the 16-byte header and a body.  body.fmt says what the     *)
(* body bytes are: "empty", "I" (one u32, in body.u32), "IH256sHI" (the    *)
(* device-add struct) or "plist" (a serialized record, in body.dict).      *)
(* ---------------------------------------------------------------------- *)
Body(fmt, u32, dict) == [fmt |-> fmt, u32 |-> u32, dict |-> dict]
EmptyBody == Body("empty", None, Payload)
BodyI(n) == Body("I", n, Payload)
BodyAdd(device_id, product, serial, location) ==
    Body("IH256sHI", None,
         [Payload EXCEPT !.DeviceID = device_id,
                         !.Properties = Properties(product, serial, location)])
BodyPlist(dict) == Body("plist", None, dict)

Frame(version, opcode, tag, body) ==
    [version |-> version, opcode |-> opcode, tag |-> tag, body |-> body]

(* ---------------------------------------------------------------------- *)
(* BinaryProtocol                                                          *)
(* ---------------------------------------------------------------------- *)
\* a codec call either raises (exc # NoErr) or returns its values
Raise(e) == [exc |-> e, frame |-> Frame(0, 0, 0, EmptyBody),
             response |-> 0, tag |-> 0, data |-> Payload]

\* is_connected with the guard left out
is_connected_unguarded(conn) == NoErr

\* __is_connected: the guard at the head of send_packet and get_packet
is_connected(conn) ==
    IF conn THEN MuxError("MUX_CONNECTED_ERROR", None, None) ELSE NoErr

\* _pack for a structured payload: the body bytes, or the exception
BinaryPack(request, payload) ==
    IF request = BINARY_TYPE_LISTEN THEN [exc |-> NoErr, body |-> EmptyBody]
    ELSE IF request = BINARY_TYPE_CONNECT THEN
        \* pack("IH", ...): None, or a port that does not fit 16 bits
        IF \/ payload.DeviceID = None \/ payload.PortNumber = None
           \/ payload.PortNumber > 65535
        THEN [exc |-> PyError("struct.error"), body |-> EmptyBody]
        ELSE [exc |-> NoErr,
              body |-> Body("IH", None,
                            [Payload EXCEPT !.DeviceID = payload.DeviceID,
                                            !.PortNumber = payload.PortNumber])]
    ELSE [exc |-> Err("ValueError", "INVALID_OUTGOING_REQUEST_TYPE",
                      None, None, ToString(request)),
          body |-> EmptyBody]

\* the tail of BinaryProtocol.send_packet: header + body written to the socket
BinarySendFrame(conn, closed, version, request, tag, packed) ==
    IF is_connected(conn) # NoErr THEN Raise(is_connected(conn))
    ELSE IF packed.exc # NoErr THEN Raise(packed.exc)
    ELSE IF closed THEN Raise(PyError("OSError"))
    ELSE [Raise(NoErr) EXCEPT !.frame = Frame(version, request, tag, packed.body)]

\* BinaryProtocol._unpack
BinaryUnpack(response, body) ==
    IF response = BINARY_TYPE_RESULT THEN
        IF body.fmt = "I"
        THEN [exc |-> NoErr, data |-> [Payload EXCEPT !.Number = body.u32]]
        ELSE [exc |-> PyError("struct.error"), data |-> Payload]
    ELSE IF response = BINARY_TYPE_DEVICE_REMOVE THEN
        IF body.fmt = "I"
        THEN [exc |-> NoErr, data |-> [Payload EXCEPT !.DeviceID = body.u32]]
        ELSE [exc |-> PyError("struct.error"), data |-> Payload]
    ELSE IF response = BINARY_TYPE_DEVICE_ADD THEN
        \* unpack gives the serial as bytes; bytes.split(str) raises TypeError
        IF body.fmt = "IH256sHI"
        THEN [exc |-> PyError("TypeError"), data |-> Payload]
        ELSE [exc |-> PyError("struct.error"), data |-> Payload]
    ELSE [exc |-> MuxErrorResponse("INVALID_INCOMING_RESPONSE_TYPE", response),
          data |-> Payload]

\* PlistProtocol._unpack: the body is handed on undecoded
PlistUnpack(response, body) == [exc |-> NoErr, data |-> Payload]

\* BinaryProtocol.get_packet, run by protocol p (its VERSION, its _unpack)
BinaryGetPacket(p, conn, closed, f) ==
    IF is_connected(conn) # NoErr THEN Raise(is_connected(conn))
    ELSE IF closed THEN Raise(PyError("OSError"))
    ELSE IF f.version = VERSION(p) THEN
        LET u == IF p = "Binary" THEN BinaryUnpack(f.opcode, f.body)
                 ELSE PlistUnpack(f.opcode, f.body)
        IN IF u.exc # NoErr THEN Raise(u.exc)
           ELSE [Raise(NoErr) EXCEPT !.response = f.opcode, !.tag = f.tag,
                                     !.data = u.data]
    ELSE Raise(MuxVersionError(VERSION(p), f.version))

(* ---------------------------------------------------------------------- *)
(* PlistProtocol                                                           *)
(* ---------------------------------------------------------------------- *)
\* __request_type: legacy integer opcodes to message names
\* isinstance(request, int), for the integers that are opcodes
IsInt(request) == ToString(request) \in {ToString(i) : i \in 0..9}

request_type(request) ==
    IF ~IsInt(request) THEN [exc |-> NoErr, name |-> request]
    ELSE IF request = BINARY_TYPE_CONNECT THEN [exc |-> NoErr, name |-> "Connect"]
    ELSE IF request = BINARY_TYPE_LISTEN THEN [exc |-> NoErr, name |-> "Listen"]
    ELSE [exc |-> PyError("KeyError"), name |-> NoneStr]

\* dumps(remove_none(asdict(payload))): remove_none drops the None values
\* of the record itself, not those of the nested Properties dictionary, and
\* dumps raises TypeError on a None value
HasNoneInside(properties) ==
    /\ properties.present
    /\ \/ properties.ConnectionType = NoneStr \/ properties.DeviceID = None
       \/ properties.LocationID = None \/ properties.ProductID = None
       \/ properties.SerialNumber = NoneStr \/ properties.UDID = NoneStr

\* payload.MessageType = self.__request_type(request): the object passed to
\* send_packet after the call (the Binary codec assigns nothing)
message_type_assigned(p, request, payload) ==
    IF p = "Plist" /\ request_type(request).exc = NoErr
    THEN [payload EXCEPT !.MessageType = request_type(request).name]
    ELSE payload

PlistSendPacket(conn, closed, request, tag, payload) ==
    LET rt == request_type(request)
        dict == [payload EXCEPT !.MessageType = rt.name]
    IN IF rt.exc # NoErr THEN Raise(rt.exc)
       ELSE IF HasNoneInside(dict.Properties) THEN Raise(PyError("TypeError"))
       ELSE BinarySendFrame(conn, closed, PLIST_VERSION, TYPE_PLIST, tag,
                            [exc |-> NoErr, body |-> BodyPlist(dict)])

\* Payload(**plist_payload, Properties=_Properties(**properties)): a key the
\* dictionary lacks takes the dataclass default, and Properties is always
\* an object, built from {} when the dictionary has no Properties
PlistDecode(d) ==
    [d EXCEPT !.Properties.present = TRUE,
              !.ClientVersionString =
                  IF @ = NoneStr THEN Payload.ClientVersionString ELSE @,
              !.ProgName = IF @ = NoneStr THEN Payload.ProgName ELSE @]

\* PlistGetPacket without the `or ''` on the MessageType
PlistGetPacket_no_default(conn, closed, f) ==
    LET r == BinaryGetPacket("Plist", conn, closed, f)
    IN IF r.exc # NoErr THEN r
       ELSE IF r.response # TYPE_PLIST
       THEN Raise(MuxErrorResponse("INVALID_INCOMING_RESPONSE_TYPE", r.response))
       ELSE IF f.body.fmt # "plist" THEN Raise(PyError("InvalidFileException"))
       ELSE LET s == PlistDecode(f.body.dict)
            IN [Raise(NoErr) EXCEPT !.response = s.MessageType,
                                    !.tag = f.tag, !.data = s]

\* PlistProtocol.get_packet
PlistGetPacket(conn, closed, f) ==
    LET r == BinaryGetPacket("Plist", conn, closed, f)
    IN IF r.exc # NoErr THEN r
       ELSE IF r.response # TYPE_PLIST
       THEN Raise(MuxErrorResponse("INVALID_INCOMING_RESPONSE_TYPE", r.response))
       ELSE IF f.body.fmt # "plist" THEN Raise(PyError("InvalidFileException"))
       ELSE LET s == PlistDecode(f.body.dict)
            IN [Raise(NoErr) EXCEPT
                  !.response = IF s.MessageType = NoneStr THEN ""
                               ELSE s.MessageType,
                  !.tag = f.tag, !.data = s]

(* ---------------------------------------------------------------------- *)
(* Protocol dispatch (the codec a Connection was constructed with)         *)
(* ---------------------------------------------------------------------- *)
send_packet(p, conn, closed, request, tag, payload) ==
    IF p = "Binary"
    THEN BinarySendFrame(conn, closed, BINARY_VERSION, request, tag,
                         BinaryPack(request, payload))
    ELSE PlistSendPacket(conn, closed, request, tag, payload)

get_packet(p, conn, closed, f) ==
    IF p = "Binary" THEN BinaryGetPacket(p, conn, closed, f)
    ELSE PlistGetPacket(conn, closed, f)

(* ---------------------------------------------------------------------- *)
(* Connection                                                              *)
(* ---------------------------------------------------------------------- *)
VARIABLES
    protocol,    \* the codec class the Connection was constructed with
    packet_tag,  \* Connection.__packet_tag
    devices,     \* Connection.__devices, the registry
    connected,   \* BinaryProtocol.__connected
    closed,      \* the socket has been closed by close()
    rx,          \* frames the daemon has written and the client has not read
    sent,        \* frames the client has written to the stream, in order
    pc,          \* "idle", or "reply": blocked in the read of an exchange
    pending,     \* the call blocked in its read: operation and tag sent
    result,      \* outcome of the last call that returned or raised
    mux,         \* USBMux.__init__: where the construction of the facade is
    attempts,    \* the protocols USBMux.__connect has been run with, in order
    sock,        \* a SafeStreamSocket at byte granularity, and its receive() call
    arg,         \* the arguments a caller has chosen for a connect() call
    codec,       \* a codec called directly: its input, the frame, its output
    default_payload, \* the Payload object bound to _exchange's default argument
    peer,        \* a second Connection of the same process (a connector)
    wire         \* a listener's stream at byte granularity, and its process() call

vars == <<protocol, packet_tag, devices, connected, closed, rx, sent, pc,
          pending, result, mux, attempts, sock, arg, codec,
          default_payload, peer, wire>>
muxvars == <<mux, attempts>>
\* what no operation of the Connection or of the facade touches
auxvars == <<sock, arg, codec, peer, wire>>

NoPending == [op |-> "none", tag |-> 0]
Result(op, exc, ret) == [op |-> op, exc |-> exc, ret |-> ret]

\* exchange_reply without the comparison of the reply's tag
exchange_reply_any_tag(p, conn, cl, f, previous_tag) ==
    LET r == get_packet(p, conn, cl, f)
    IN IF r.exc # NoErr THEN [exc |-> r.exc, number |-> None]
       ELSE IF r.response # TYPE_RESULT(p)
       THEN [exc |-> MuxErrorResponse("INVALID_PACKET_TYPE", r.response),
             number |-> None]
       ELSE [exc |-> NoErr, number |-> r.data.Number]

\* _get_reply, then the checks of _exchange on the reply: the Number, or raise
exchange_reply(p, conn, cl, f, previous_tag) ==
    LET r == get_packet(p, conn, cl, f)
    IN IF r.exc # NoErr THEN [exc |-> r.exc, number |-> None]
       ELSE IF r.response # TYPE_RESULT(p)
       THEN [exc |-> MuxErrorResponse("INVALID_PACKET_TYPE", r.response),
             number |-> None]
       ELSE IF r.tag # previous_tag
       THEN [exc |-> MuxError("TAG_MISMATCH", previous_tag, r.tag),
             number |-> None]
       ELSE [exc |-> NoErr, number |-> r.data.Number]

\* exchange_send without the increment of the counter
exchange_send_same_tag(op, request, payload) ==
    LET previous_tag == packet_tag
        s == send_packet(protocol, connected, closed, request, previous_tag,
                         payload)
    IN /\ pc = "idle"
       /\ Len(sent) < MaxTag
       /\ packet_tag' = packet_tag
       /\ IF s.exc # NoErr
          THEN /\ result' = Result(op, s.exc, "None")
               /\ UNCHANGED <<sent, pc, pending>>
          ELSE /\ sent' = Append(sent, s.frame)
               /\ pc' = "reply"
               /\ pending' = [op |-> op, tag |-> previous_tag]
               /\ UNCHANGED result
       /\ default_payload' = IF op = "listen"
                             THEN message_type_assigned(protocol, request, payload)
                             ELSE default_payload
       /\ UNCHANGED <<protocol, devices, connected, closed, rx, muxvars, auxvars>>

\* the head of _exchange: take the tag, bump the counter, send the request;
\* op = "listen": the payload is the default argument's object, which
\* send_packet may assign to
exchange_send(op, request, payload) ==
    LET previous_tag == packet_tag
        s == send_packet(protocol, connected, closed, request, previous_tag,
                         payload)
    IN /\ pc = "idle"
       /\ packet_tag <= MaxTag
       /\ packet_tag' = packet_tag + 1
       /\ IF s.exc # NoErr
          THEN /\ result' = Result(op, s.exc, "None")
               /\ UNCHANGED <<sent, pc, pending>>
          ELSE /\ sent' = Append(sent, s.frame)
               /\ pc' = "reply"
               /\ pending' = [op |-> op, tag |-> previous_tag]
               /\ UNCHANGED result
       /\ default_payload' = IF op = "listen"
                             THEN message_type_assigned(protocol, request, payload)
                             ELSE default_payload
       /\ UNCHANGED <<protocol, devices, connected, closed, rx, muxvars, auxvars>>

\* the second Connection as constructed (Connection.__init__)
NoPeer == [protocol |-> "Binary", packet_tag |-> 1, devices |-> << >>,
           connected |-> FALSE, sent |-> << >>, pc |-> "idle",
           pending |-> NoPending, result |-> Result("none", NoErr, "None")]

\* no codec called directly
NoCodec == [p |-> "Binary", request |-> 0, payload |-> Payload,
            frame |-> Frame(0, 0, 0, EmptyBody), out |-> Raise(NoErr),
            state |-> "idle"]

\* no connect() arguments chosen beforehand
NoArg == [device_id |-> None, port |-> None]

\* listen(), up to its blocking read: _exchange is called without a payload
\* and takes the object its default argument was bound to
Listen == exchange_send("listen", TYPE_LISTEN(protocol), default_payload)

\* connect(device, port), up to its blocking read
\* port_number without the swap
port_number_unswapped(port) == port

\* ((port << 8) & 0xFF00) | (port >> 8): the two operands of | have no bit
\* in common while port >> 8 is below 256, where | is +
port_number(port) == ((port * 256) % 65536) + (port \div 256)

Connect(device, port) ==
    exchange_send("connect", TYPE_CONNECT(protocol),
                  [Payload EXCEPT !.DeviceID = device.device_id,
                                  !.PortNumber = port_number(port)])

\* listen_result that ignores the reply's Number
listen_result_any_number(x) ==
    IF x.exc # NoErr THEN Result("listen", x.exc, "None")
    ELSE Result("listen", NoErr, "None")

\* listen() after _exchange: x is what _exchange returned or raised
listen_result(x) ==
    IF x.exc # NoErr THEN Result("listen", x.exc, "None")
    ELSE IF Truthy(x.number)
    THEN Result("listen", MuxError("LISTEN_FAILED", x.number, None), "None")
    ELSE Result("listen", NoErr, "None")

\* listen() from the reply on
ListenReply ==
    /\ mux = "none"
    /\ pc = "reply" /\ pending.op = "listen" /\ rx # << >>
    /\ result' = listen_result(exchange_reply(protocol, connected, closed,
                                              Head(rx), pending.tag))
    /\ rx' = Tail(rx)
    /\ pc' = "idle" /\ pending' = NoPending
    /\ UNCHANGED <<protocol, packet_tag, devices, connected, closed, sent, muxvars, auxvars,
                   default_payload>>

\* ConnectReply that takes Number 0 for success, as listen() does
ConnectReply_zero_succeeds ==
    /\ pc = "reply" /\ pending.op = "connect" /\ rx # << >>
    /\ LET x == exchange_reply(protocol, connected, closed, Head(rx), pending.tag)
       IN IF x.exc # NoErr
          THEN result' = Result("connect", x.exc, "None") /\ UNCHANGED connected
          ELSE IF Truthy(x.number)
          THEN /\ result' = Result("connect",
                                   MuxError("CONNECTION_FAILED", x.number, None),
                                   "None")
               /\ UNCHANGED connected
          ELSE /\ connected' = TRUE
               /\ result' = Result("connect", NoErr, "socket")
    /\ rx' = Tail(rx)
    /\ pc' = "idle" /\ pending' = NoPending
    /\ UNCHANGED <<protocol, packet_tag, devices, closed, sent, muxvars, auxvars,
                   default_payload>>

\* connect() from the reply on
ConnectReply ==
    /\ pc = "reply" /\ pending.op = "connect" /\ rx # << >>
    /\ LET x == exchange_reply(protocol, connected, closed, Head(rx), pending.tag)
       IN IF x.exc # NoErr
          THEN result' = Result("connect", x.exc, "None") /\ UNCHANGED connected
          ELSE IF ~Truthy(x.number)
          THEN /\ result' = Result("connect",
                                   MuxError("CONNECTION_FAILED", x.number, None),
                                   "None")
               /\ UNCHANGED connected
          ELSE /\ connected' = TRUE
               /\ result' = Result("connect", NoErr, "socket")
    /\ rx' = Tail(rx)
    /\ pc' = "idle" /\ pending' = NoPending
    /\ UNCHANGED <<protocol, packet_tag, devices, closed, sent, muxvars, auxvars,
                   default_payload>>

\* Client.get_pair_record(udid), up to its blocking read (Client is a
\* Connection constructed with PlistProtocol)
GetPairRecord(udid) ==
    /\ protocol = "Plist"
    /\ exchange_send("get_pair_record", TYPE_READ_PAIR,
                     [Payload EXCEPT !.PairRecordID = udid])

\* Client.get_pair_record from the reply on
GetPairRecordReply ==
    /\ pc = "reply" /\ pending.op = "get_pair_record" /\ rx # << >>
    /\ LET r == get_packet(protocol, connected, closed, Head(rx))
       IN result' =
            IF r.exc # NoErr THEN Result("get_pair_record", r.exc, "None")
            \* TAG_MISMATCH.format(excepted=..., current=...): no 'expected'
            ELSE IF r.tag # pending.tag
            THEN Result("get_pair_record", PyError("KeyError"), "None")
            ELSE IF r.data.PairRecordData = NoneStr
            THEN Result("get_pair_record",
                        MuxError("INVALID_PAYLOAD", None, None), "None")
            ELSE Result("get_pair_record", NoErr, "record")
    /\ rx' = Tail(rx)
    /\ pc' = "idle" /\ pending' = NoPending
    /\ UNCHANGED <<protocol, packet_tag, devices, connected, closed, sent, muxvars, auxvars,
                   default_payload>>

\* s without its i-th element
RemoveAt(s, i) == SubSeq(s, 1, i - 1) \o SubSeq(s, i + 1, Len(s))

\* [self.__devices.remove(device) for device in self.__devices if ...]:
\* the iterator's index moves on after each removal from the list it walks
RECURSIVE remove_devices(_, _, _)
remove_devices(list, i, device_id) ==
    IF i > Len(list) THEN list
    ELSE IF list[i].device_id = device_id
    THEN remove_devices(RemoveAt(list, i), i + 1, device_id)
    ELSE remove_devices(list, i + 1, device_id)

\* _process_packet on frame f: the exception it ends with (NoErr when it
\* returns) and the registry it leaves
process_packet(p, conn, cl, f, devs) ==
    LET r == get_packet(p, conn, cl, f)
    IN IF r.exc # NoErr THEN [exc |-> r.exc, devices |-> devs]
       ELSE IF r.response = TYPE_DEVICE_ADD(p) THEN
           LET properties == r.data.Properties
           IN [exc |-> NoErr,
               devices |-> Append(devs,
                   IF ~properties.present
                   THEN Device(r.data.DeviceID, None, NoneStr, None)
                   ELSE Device(r.data.DeviceID, properties.ProductID,
                               properties.SerialNumber, properties.LocationID))]
       ELSE IF r.response = TYPE_DEVICE_REMOVE(p) THEN
           \* no return after the removal: control falls into the next test
           [exc |-> MuxErrorResponse("INVALID_PACKET_TYPE", r.response),
            devices |-> remove_devices(devs, 1, r.data.DeviceID)]
       ELSE IF r.response # TYPE_RESULT(p)
       THEN [exc |-> MuxErrorResponse("INVALID_PACKET_TYPE", r.response),
             devices |-> devs]
       ELSE [exc |-> MuxErrorResponse("UNEXPECTED_RESULT", r.response),
             devices |-> devs]

\* Process raising when select times out with nothing to read
Process_timeout_raises(xlo) ==
    /\ pc = "idle"
    /\ IF connected
       THEN /\ result' = Result("process",
                                MuxError("SOCKET_IS_CONNECTED", None, None), "None")
            /\ UNCHANGED <<devices, closed, rx>>
       ELSE IF closed
       THEN /\ result' = Result("process", PyError("ValueError"), "None")
            /\ UNCHANGED <<devices, closed, rx>>
       ELSE IF xlo
       THEN /\ closed' = TRUE
            /\ result' = Result("process",
                                MuxError("SOCKET_LISTENER_ERROR", None, None),
                                "None")
            /\ UNCHANGED <<devices, rx>>
       ELSE IF rx # << >>
       THEN LET x == process_packet(protocol, connected, closed, Head(rx), devices)
            IN /\ devices' = x.devices
               /\ rx' = Tail(rx)
               /\ result' = Result("process", x.exc, "None")
               /\ UNCHANGED closed
       ELSE /\ result' = Result("process",
                                MuxError("SOCKET_LISTENER_ERROR", None, None),
                                "None")
            /\ UNCHANGED <<devices, closed, rx>>
    /\ UNCHANGED <<protocol, packet_tag, connected, sent, pc, pending, muxvars,
                   auxvars, default_payload>>

\* Process testing rlo before xlo: a readable stream is read first
Process_reads_first(xlo) ==
    /\ pc = "idle"
    /\ IF connected
       THEN /\ result' = Result("process",
                                MuxError("SOCKET_IS_CONNECTED", None, None), "None")
            /\ UNCHANGED <<devices, closed, rx>>
       ELSE IF closed
       THEN /\ result' = Result("process", PyError("ValueError"), "None")
            /\ UNCHANGED <<devices, closed, rx>>
       ELSE IF rx # << >>
       THEN LET x == process_packet(protocol, connected, closed, Head(rx), devices)
            IN /\ devices' = x.devices
               /\ rx' = Tail(rx)
               /\ result' = Result("process", x.exc, "None")
               /\ UNCHANGED closed
       ELSE IF xlo
       THEN /\ closed' = TRUE
            /\ result' = Result("process",
                                MuxError("SOCKET_LISTENER_ERROR", None, None),
                                "None")
            /\ UNCHANGED <<devices, rx>>
       ELSE /\ result' = Result("process", NoErr, "None")
            /\ UNCHANGED <<devices, closed, rx>>
    /\ UNCHANGED <<protocol, packet_tag, connected, sent, pc, pending, muxvars,
                   auxvars, default_payload>>

\* process(timeout); xlo: select reports an exceptional condition;
\* rlo: the stream is readable
Process(xlo) ==
    /\ pc = "idle"
    /\ IF connected
       THEN /\ result' = Result("process",
                                MuxError("SOCKET_IS_CONNECTED", None, None), "None")
            /\ UNCHANGED <<devices, closed, rx>>
       ELSE IF closed   \* select() on a closed socket
       THEN /\ result' = Result("process", PyError("ValueError"), "None")
            /\ UNCHANGED <<devices, closed, rx>>
       ELSE IF xlo
       THEN /\ closed' = TRUE
            /\ result' = Result("process",
                                MuxError("SOCKET_LISTENER_ERROR", None, None),
                                "None")
            /\ UNCHANGED <<devices, rx>>
       ELSE IF rx # << >>
       THEN LET x == process_packet(protocol, connected, closed, Head(rx), devices)
            IN /\ devices' = x.devices
               /\ rx' = Tail(rx)
               /\ result' = Result("process", x.exc, "None")
               /\ UNCHANGED closed
       ELSE /\ result' = Result("process", NoErr, "None")
            /\ UNCHANGED <<devices, closed, rx>>
    /\ UNCHANGED <<protocol, packet_tag, connected, sent, pc, pending, muxvars, auxvars,
                   default_payload>>

\* close() that also clears the connected flag
Close_clears_connected ==
    /\ pc = "idle"
    /\ closed' = TRUE
    /\ connected' = FALSE
    /\ result' = Result("close", NoErr, "None")
    /\ UNCHANGED <<protocol, packet_tag, devices, rx, sent, pc, pending, muxvars, auxvars,
                   default_payload>>

\* close()
Close ==
    /\ pc = "idle"
    /\ closed' = TRUE
    /\ result' = Result("close", NoErr, "None")
    /\ UNCHANGED <<protocol, packet_tag, devices, connected, rx, sent, pc, pending,
                   muxvars, auxvars,
                   default_payload>>

(* ---------------------------------------------------------------------- *)
(* The daemon: the frames it may write to the stream                       *)
(* ---------------------------------------------------------------------- *)
Numbers == {0, 17}

PlistDict(message_type, number, device_id, properties, data) ==
    [EmptyDict EXCEPT !.MessageType = message_type, !.Number = number,
                      !.DeviceID = device_id, !.Properties = properties,
                      !.PairRecordData = data]

\* frames in the binary format: results, attach and detach events, an
\* unknown opcode, a result without its body
BinaryFrames(tags) ==
    {Frame(BINARY_VERSION, BINARY_TYPE_RESULT, t, BodyI(n)) :
        t \in tags, n \in Numbers}
    \cup {Frame(BINARY_VERSION, BINARY_TYPE_DEVICE_ADD, 0,
                BodyAdd(d, 4776, "ABC123", 0)) : d \in {1}}
    \cup {Frame(BINARY_VERSION, BINARY_TYPE_DEVICE_REMOVE, 0, BodyI(d)) : d \in {1}}
    \cup {Frame(BINARY_VERSION, 9, 0, EmptyBody)}
    \cup {Frame(BINARY_VERSION, BINARY_TYPE_RESULT, t, EmptyBody) : t \in tags \ {0}}

\* frames in the plist format: results (Number present or not), attach
\* events with and without Properties, a detach event, a pairing record
\* (which has no MessageType)
PlistFrames(tags) ==
    {Frame(PLIST_VERSION, TYPE_PLIST, t,
           BodyPlist(PlistDict("Result", n, None, NoProperties, NoneStr))) :
        t \in tags, n \in Numbers}
    \cup {Frame(PLIST_VERSION, TYPE_PLIST, t,
                BodyPlist(PlistDict("Result", None, None, NoProperties, NoneStr))) :
            t \in tags \ {0}}
    \cup {Frame(PLIST_VERSION, TYPE_PLIST, 0,
                BodyPlist(PlistDict("Attached", None, 1,
                                    Properties(4776, "ABC123", 0), NoneStr))),
          Frame(PLIST_VERSION, TYPE_PLIST, 0,
                BodyPlist(PlistDict("Attached", None, 2, NoProperties, NoneStr)))}
    \cup {Frame(PLIST_VERSION, TYPE_PLIST, 0,
                BodyPlist(PlistDict("Detached", None, 1, NoProperties, NoneStr)))}
    \cup {Frame(PLIST_VERSION, TYPE_PLIST, t,
                BodyPlist(PlistDict(NoneStr, None, None, NoProperties, "plist"))) :
            t \in tags \ {0}}

\* what the daemon may send to a client speaking p: the frames of p's
\* format, one frame of the other format, and (to the plist codec) a frame
\* of its version whose opcode is not the plist marker
Frames(p, tags) ==
    IF p = "Binary"
    THEN BinaryFrames(tags)
         \cup {Frame(PLIST_VERSION, TYPE_PLIST, t,
                     BodyPlist(PlistDict("Result", 0, None, NoProperties, NoneStr))) :
                 t \in tags \ {0}}
    ELSE PlistFrames(tags)
         \cup {Frame(BINARY_VERSION, BINARY_TYPE_RESULT, t, BodyI(0)) :
                 t \in tags \ {0}}
         \cup {Frame(PLIST_VERSION, BINARY_TYPE_RESULT, 0, BodyI(0))}

IsAdd(f) ==
    \/ f.opcode = BINARY_TYPE_DEVICE_ADD
    \/ f.body.fmt = "plist" /\ f.body.dict.MessageType = "Attached"

\* the daemon writes one frame; a reply echoes the tag of the last request
\* or carries tag 0, which no request has
DaemonSend(f) ==
    /\ ~connected /\ ~closed
    /\ Len(rx) < MaxQueue
    /\ IsAdd(f) =>
         Len(devices) + Cardinality({i \in DOMAIN rx : IsAdd(rx[i])}) < MaxDevices
    /\ rx' = Append(rx, f)
    /\ UNCHANGED <<protocol, packet_tag, devices, connected, closed, sent, pc,
                   pending, result, muxvars, auxvars,
                   default_payload>>

(* ---------------------------------------------------------------------- *)
(* SafeStreamSocket.receive at byte granularity.  sock.written: the bytes  *)
(* the peer has written, in order; sock.taken: how many of them recv has   *)
(* handed out; sock.peer_closed: the peer has shut the stream down, so a   *)
(* recv that finds no byte returns b"" instead of blocking.                *)
(*   sock.state = "idle": no call yet; "loop": inside the while loop of    *)
(*   receive(size), with sock.message collected by sock.reads calls of     *)
(*   recv since the call began at offset sock.start; "returned": the call  *)
(*   returned sock.message; "raised": it raised sock.exc.                  *)
(* ---------------------------------------------------------------------- *)
\* bytes the peer writes in all
MaxStream == 4
\* the largest size receive() is called with
MaxRecv == 3

Bytes == {0, 65}

connvars == <<protocol, packet_tag, devices, connected, closed, rx, sent, pc,
              pending, result>>

NoSock == [written |-> << >>, peer_closed |-> FALSE, taken |-> 0, start |-> 0,
           size |-> 0, message |-> << >>, reads |-> 0, state |-> "idle",
           exc |-> NoErr]

Min(a, b) == IF a < b THEN a ELSE b

\* receive(size): message = bytes(), then the loop test
SockReceive(size) ==
    /\ sock.state # "loop"
    /\ sock' = [sock EXCEPT !.size = size, !.message = << >>,
                            !.start = sock.taken, !.reads = 0, !.exc = NoErr,
                            !.state = IF 0 < size THEN "loop" ELSE "returned"]
    /\ UNCHANGED <<connvars, muxvars, arg, codec, default_payload, peer, wire>>

\* SockRecv asking recv for size bytes on every turn of the loop
SockRecv_asks_size(k) ==
    LET avail == Len(sock.written) - sock.taken
        chunk == SubSeq(sock.written, sock.taken + 1, sock.taken + k)
        message == sock.message \o chunk
    IN /\ sock.state = "loop"
       /\ IF avail = 0 THEN k = 0 /\ sock.peer_closed
          ELSE k \in 1..Min(sock.size, avail)
       /\ sock' = IF k = 0
                  THEN [sock EXCEPT !.reads = @ + 1, !.state = "raised",
                          !.exc = MuxError("SOCKET_CONNECTION_BROKEN", None, None)]
                  ELSE [sock EXCEPT !.reads = @ + 1, !.taken = @ + k,
                          !.message = message,
                          !.state = IF Len(message) < sock.size THEN "loop"
                                    ELSE "returned"]
       /\ UNCHANGED <<connvars, muxvars, arg, codec, default_payload, peer, wire>>

\* one turn of the loop: recv(size - len(message)) hands out k bytes, at
\* least one and at most what was asked for and what the stream holds; it
\* hands out none only when the peer has shut down and no byte is left
SockRecv(k) ==
    LET avail == Len(sock.written) - sock.taken
        chunk == SubSeq(sock.written, sock.taken + 1, sock.taken + k)
        message == sock.message \o chunk
    IN /\ sock.state = "loop"
       /\ IF avail = 0 THEN k = 0 /\ sock.peer_closed
          ELSE k \in 1..Min(sock.size - Len(sock.message), avail)
       /\ sock' = IF k = 0
                  THEN [sock EXCEPT !.reads = @ + 1, !.state = "raised",
                          !.exc = MuxError("SOCKET_CONNECTION_BROKEN", None, None)]
                  ELSE [sock EXCEPT !.reads = @ + 1, !.taken = @ + k,
                          !.message = message,
                          !.state = IF Len(message) < sock.size THEN "loop"
                                    ELSE "returned"]
       /\ UNCHANGED <<connvars, muxvars, arg, codec, default_payload, peer, wire>>

\* the peer writes one byte / shuts its side of the stream down
PeerWrite(b) ==
    /\ ~sock.peer_closed /\ Len(sock.written) < MaxStream
    /\ sock' = [sock EXCEPT !.written = Append(@, b)]
    /\ UNCHANGED <<connvars, muxvars, arg, codec, default_payload, peer, wire>>

PeerShutdown ==
    /\ ~sock.peer_closed
    /\ sock' = [sock EXCEPT !.peer_closed = TRUE]
    /\ UNCHANGED <<connvars, muxvars, arg, codec, default_payload, peer, wire>>

(* ---------------------------------------------------------------------- *)
(* process() of a listener at byte granularity.  wire.frames: the frames   *)
(* the daemon's stream is made of; wire.written: how many bytes of that    *)
(* stream the daemon has written so far; wire.taken: how many of them recv *)
(* has handed out.                                                         *)
(*   wire.state = "idle": no call in progress; "select": process() is in   *)
(*   its readiness wait; "length": get_packet is in receive(4); "body":    *)
(*   get_packet is in receive(size), with wire.message collected so far.   *)
(*   wire.calls: get_packet calls that have read their frame; wire.outs:   *)
(*   the exception each ended with (NoErr when it returned).               *)
(* ---------------------------------------------------------------------- *)
\* frames in the daemon's stream
MaxFrames == 2

\* pack("I", n) and unpack("I", b), little-endian
Pack32(n) ==
    <<n % 256, (n \div 256) % 256, (n \div 65536) % 256, n \div 16777216>>
Unpack32(b) == b[1] + 256 * b[2] + 65536 * b[3] + 16777216 * b[4]

\* the bytes of a serialized Result record with Number 0, cut down to their
\* first two ("<?"): loads() accepts these bytes, and no other body here
PlistBytes == <<60, 63>>

WireFrame(version, opcode, tag, body) ==
    [version |-> version, opcode |-> opcode, tag |-> tag, body |-> body]

\* a binary RESULT, a binary frame with an unknown opcode, a plist frame,
\* and a version-1 frame whose opcode is not the plist marker
WireFrames ==
    {WireFrame(BINARY_VERSION, BINARY_TYPE_RESULT, 0, Pack32(0)),
     WireFrame(BINARY_VERSION, 9, 0, << >>),
     WireFrame(PLIST_VERSION, TYPE_PLIST, 0, PlistBytes),
     WireFrame(PLIST_VERSION, BINARY_TYPE_RESULT, 0, Pack32(0))}

\* pack("IIII", length, version, opcode, tag) + body, as the daemon writes it
Encode(f) ==
    Pack32(16 + Len(f.body)) \o Pack32(f.version) \o Pack32(f.opcode)
        \o Pack32(f.tag) \o f.body

RECURSIVE Stream(_)
Stream(frames) ==
    IF frames = << >> THEN << >>
    ELSE Encode(Head(frames)) \o Stream(Tail(frames))

\* what the body bytes are to unpack and to loads
BodyOfBytes(b) ==
    IF b = << >> THEN EmptyBody
    ELSE IF b = PlistBytes
    THEN BodyPlist(PlistDict("Result", 0, None, NoProperties, NoneStr))
    ELSE IF Len(b) = 4 THEN BodyI(Unpack32(b))
    ELSE Body("bytes", None, Payload)

\* size without the subtraction of the four bytes already read
body_size_whole(length) == length

\* size = length_payload[0] - self.SOCKET_PADDING
body_size(length) == length - 4

\* get_packet once body has been received: unpack(III, body[:0xc]), then the
\* version test and _unpack on body[0xc:]
WireDecode(p, body) ==
    get_packet(p, FALSE, FALSE,
               Frame(Unpack32(SubSeq(body, 1, 4)), Unpack32(SubSeq(body, 5, 8)),
                     Unpack32(SubSeq(body, 9, 12)),
                     BodyOfBytes(SubSeq(body, 13, Len(body)))))

NoWire == [p |-> "Binary", frames |-> << >>, written |-> 0, taken |-> 0,
           state |-> "idle", size |-> 0, message |-> << >>, calls |-> 0,
           outs |-> << >>]

wirerest == <<connvars, muxvars, sock, arg, codec, default_payload, peer>>

\* process(timeout) is called on a Connection that is not connected
WireProcess ==
    /\ wire.state = "idle"
    /\ wire' = [wire EXCEPT !.state = "select"]
    /\ UNCHANGED wirerest

\* select() returns: the stream is readable as soon as one byte is unread,
\* and _process_packet calls get_packet, which starts receive(4); with no
\* byte unread the timeout runs out and process() returns
WireSelect ==
    /\ wire.state = "select"
    /\ wire' = IF wire.written > wire.taken
               THEN [wire EXCEPT !.state = "length", !.size = 4,
                                 !.message = << >>]
               ELSE [wire EXCEPT !.state = "idle"]
    /\ UNCHANGED wirerest

\* one turn of receive's loop inside get_packet: recv hands out k bytes, at
\* least one; with no byte unread recv does not return (the stream is open
\* and the socket has no timeout)
WireRecv(k) ==
    LET avail == wire.written - wire.taken
        chunk == SubSeq(Stream(wire.frames), wire.taken + 1, wire.taken + k)
        message == wire.message \o chunk
    IN /\ wire.state \in {"length", "body"}
       /\ k \in 1..Min(wire.size - Len(wire.message), avail)
       /\ wire' =
            IF Len(message) < wire.size
            THEN [wire EXCEPT !.taken = @ + k, !.message = message]
            ELSE IF wire.state = "length"
            THEN [wire EXCEPT !.taken = @ + k, !.message = << >>,
                              !.size = body_size(Unpack32(message)),
                              !.state = "body"]
            ELSE [wire EXCEPT !.taken = @ + k, !.message = << >>, !.size = 0,
                              !.state = "idle", !.calls = @ + 1,
                              !.outs = Append(@, WireDecode(wire.p, message).exc)]
       /\ UNCHANGED wirerest

\* the daemon writes the next byte of its stream
WireDaemonWrite ==
    /\ wire.written < Len(Stream(wire.frames))
    /\ wire' = [wire EXCEPT !.written = @ + 1]
    /\ UNCHANGED wirerest

(* ---------------------------------------------------------------------- *)
(* Specification of one Connection                                         *)
(* ---------------------------------------------------------------------- *)
ArgDevices == {Device(1, 4776, "ABC123", 0)}
ArgPorts == {62078}
ArgUdids == {"udid"}

Init ==
    /\ protocol \in Protocols
    /\ packet_tag = 1
    /\ devices = << >>
    /\ connected = FALSE
    /\ closed = FALSE
    /\ rx = << >>
    /\ sent = << >>
    /\ pc = "idle"
    /\ pending = NoPending
    /\ result = Result("none", NoErr, "None")
    /\ mux = "none"
    /\ attempts = << >>
    /\ sock = NoSock
    /\ arg = NoArg
    /\ codec = NoCodec
    /\ default_payload = Payload
    /\ peer = NoPeer
    /\ wire = NoWire

Next ==
    \/ Listen
    \/ ListenReply
    \/ \E device \in ArgDevices, port \in ArgPorts : Connect(device, port)
    \/ ConnectReply
    \/ \E udid \in ArgUdids : GetPairRecord(udid)
    \/ GetPairRecordReply
    \/ \E xlo \in BOOLEAN : Process(xlo)
    \/ Close
    \/ \E f \in Frames(protocol, {0, packet_tag - 1}) : DaemonSend(f)

Spec == Init /\ [][Next]_vars

(* ---------------------------------------------------------------------- *)
(* USBMux facade: construction with the binary-to-plist fallback.  The     *)
(* Connection variables hold the facade's listener.                        *)
(*   mux = "binary" / "plist": __connect(BinaryProtocol, 0) /              *)
(*         __connect(PlistProtocol, 1) is about to run;                    *)
(*   "listening": __connect is blocked in the read of listen();            *)
(*   "ready": __init__ returned;  "failed": __init__ raised result.exc.    *)
(* ---------------------------------------------------------------------- *)
\* __connect(protocol, version) up to the blocking read of listen(): a new
\* Connection on a new socket, then the LISTEN request.  reachable: the
\* daemon accepts the socket's connect()
MuxConnect(reachable) ==
    /\ mux \in {"binary", "plist"}
    /\ LET p == IF mux = "binary" THEN "Binary" ELSE "Plist"
           s == send_packet(p, FALSE, FALSE, TYPE_LISTEN(p), 1, default_payload)
       IN /\ attempts' = Append(attempts, p)
          /\ protocol' = p
          /\ devices' = << >>
          /\ connected' = FALSE
          /\ closed' = FALSE
          /\ rx' = << >>
          /\ IF ~reachable
             THEN /\ mux' = "failed"
                  /\ result' = Result("init", PyError("OSError"), "None")
                  /\ UNCHANGED default_payload
                  /\ packet_tag' = 1
                  /\ sent' = << >>
                  /\ pc' = "idle" /\ pending' = NoPending
             ELSE /\ mux' = "listening"
                  /\ packet_tag' = 2
                  /\ sent' = << s.frame >>
                  /\ pc' = "reply" /\ pending' = [op |-> "listen", tag |-> 1]
                  /\ default_payload' =
                        message_type_assigned(p, TYPE_LISTEN(p), default_payload)
                  /\ UNCHANGED result
    /\ UNCHANGED auxvars

\* MuxListenReply that falls back on any MuxError (except MuxError:)
MuxListenReply_any_MuxError ==
    /\ mux = "listening" /\ rx # << >>
    /\ LET r == listen_result(exchange_reply(protocol, connected, closed,
                                             Head(rx), pending.tag))
       IN /\ result' = [r EXCEPT !.op = "init"]
          /\ mux' = IF r.exc = NoErr THEN "ready"
                    ELSE IF /\ protocol = "Binary"
                            /\ r.exc.kind \in {"MuxVersionError", "MuxError"}
                    THEN "plist"
                    ELSE "failed"
    /\ rx' = Tail(rx)
    /\ pc' = "idle" /\ pending' = NoPending
    /\ UNCHANGED <<protocol, packet_tag, devices, connected, closed, sent, attempts,
                   auxvars, default_payload>>

\* __init__ from the reply to listen() on: return, fall back, or raise
MuxListenReply ==
    /\ mux = "listening" /\ rx # << >>
    /\ LET r == listen_result(exchange_reply(protocol, connected, closed,
                                             Head(rx), pending.tag))
       IN /\ result' = [r EXCEPT !.op = "init"]
          /\ mux' = IF r.exc = NoErr THEN "ready"
                    ELSE IF protocol = "Binary" /\ r.exc.kind = "MuxVersionError"
                    THEN "plist"
                    ELSE "failed"
    /\ rx' = Tail(rx)
    /\ pc' = "idle" /\ pending' = NoPending
    /\ UNCHANGED <<protocol, packet_tag, devices, connected, closed, sent, attempts,
                   auxvars, default_payload>>

\* USBMux.process(timeout): the listener's process
MuxProcess(xlo) ==
    /\ mux = "ready"
    /\ Process(xlo)

MuxDaemonSend(f) ==
    /\ mux \in {"listening", "ready"}
    /\ DaemonSend(f)

(* ---------------------------------------------------------------------- *)
(* Specification of one SafeStreamSocket: receive() calls one after the    *)
(* other on a stream the peer fills and may shut down.  A recv that has a  *)
(* byte to hand out, or an end of stream to report, returns; the peer goes *)
(* on writing or shuts down, so that no recv waits for ever.               *)
(* ---------------------------------------------------------------------- *)
SockInit ==
    /\ protocol = "Binary"
    /\ packet_tag = 1
    /\ devices = << >>
    /\ connected = FALSE
    /\ closed = FALSE
    /\ rx = << >>
    /\ sent = << >>
    /\ pc = "idle"
    /\ pending = NoPending
    /\ result = Result("none", NoErr, "None")
    /\ mux = "none"
    /\ attempts = << >>
    /\ sock = NoSock
    /\ arg = NoArg
    /\ codec = NoCodec
    /\ default_payload = Payload
    /\ peer = NoPeer
    /\ wire = NoWire

SockNext ==
    \/ \E size \in 0..MaxRecv : SockReceive(size)
    \/ \E k \in 0..MaxRecv : SockRecv(k)
    \/ \E b \in Bytes : PeerWrite(b)
    \/ PeerShutdown

SpecSock ==
    /\ SockInit /\ [][SockNext]_vars
    /\ WF_vars(\E k \in 0..MaxRecv : SockRecv(k))
    /\ WF_vars(PeerShutdown)

(* ---------------------------------------------------------------------- *)
(* Two Connections in one process: the Connection of the variables above   *)
(* and peer, each on its own socket.  _exchange's default payload object   *)
(* is created once, when the class is defined, and is the same object in   *)
(* every Connection.  The daemon answers the peer at once (no queue).      *)
(* ---------------------------------------------------------------------- *)
\* the head of _exchange, on the peer
PeerSend(op, request, payload) ==
    LET previous_tag == peer.packet_tag
        s == send_packet(peer.protocol, peer.connected, FALSE, request,
                         previous_tag, payload)
    IN /\ peer.pc = "idle"
       /\ peer.packet_tag <= MaxTag
       /\ peer' = IF s.exc # NoErr
                  THEN [peer EXCEPT !.packet_tag = @ + 1,
                                    !.result = Result(op, s.exc, "None")]
                  ELSE [peer EXCEPT !.packet_tag = @ + 1,
                                    !.sent = Append(@, s.frame),
                                    !.pc = "reply",
                                    !.pending = [op |-> op, tag |-> previous_tag]]
       /\ default_payload' = IF op = "listen"
                             THEN message_type_assigned(peer.protocol, request,
                                                        payload)
                             ELSE default_payload
       /\ UNCHANGED <<connvars, muxvars, sock, arg, codec, wire>>

PeerListen == PeerSend("listen", TYPE_LISTEN(peer.protocol), default_payload)

PeerConnect(device, port) ==
    PeerSend("connect", TYPE_CONNECT(peer.protocol),
             [Payload EXCEPT !.DeviceID = device.device_id,
                             !.PortNumber = port_number(port)])

\* connect() after _exchange: x is what _exchange returned or raised
connect_result(x) ==
    IF x.exc # NoErr THEN Result("connect", x.exc, "None")
    ELSE IF ~Truthy(x.number)
    THEN Result("connect", MuxError("CONNECTION_FAILED", x.number, None), "None")
    ELSE Result("connect", NoErr, "socket")

\* listen() / connect() of the peer from the reply f on
PeerReply(f) ==
    /\ peer.pc = "reply"
    /\ LET x == exchange_reply(peer.protocol, peer.connected, FALSE, f,
                               peer.pending.tag)
           r == IF peer.pending.op = "listen" THEN listen_result(x)
                ELSE connect_result(x)
       IN peer' = [peer EXCEPT !.result = r, !.pc = "idle",
                               !.pending = NoPending,
                               !.connected = @ \/ r.ret = "socket"]
    /\ UNCHANGED <<connvars, muxvars, sock, arg, codec, default_payload, wire>>

\* the daemon's answers to the request with this tag
ReplyFrames(p, tag) ==
    IF p = "Binary"
    THEN {Frame(BINARY_VERSION, BINARY_TYPE_RESULT, tag, BodyI(n)) : n \in Numbers}
    ELSE {Frame(PLIST_VERSION, TYPE_PLIST, tag,
                BodyPlist(PlistDict("Result", n, None, NoProperties, NoneStr))) :
            n \in Numbers}

\* the daemon writes to the first Connection while nothing is unread
TwoDaemonSend(f) ==
    /\ rx = << >>
    /\ DaemonSend(f)

TwoInit ==
    /\ protocol \in Protocols
    /\ packet_tag = 1
    /\ devices = << >>
    /\ connected = FALSE
    /\ closed = FALSE
    /\ rx = << >>
    /\ sent = << >>
    /\ pc = "idle"
    /\ pending = NoPending
    /\ result = Result("none", NoErr, "None")
    /\ mux = "none"
    /\ attempts = << >>
    /\ sock = NoSock
    /\ arg = NoArg
    /\ codec = NoCodec
    /\ default_payload = Payload
    /\ \E p \in Protocols : peer = [NoPeer EXCEPT !.protocol = p]
    /\ wire = NoWire

TwoNext ==
    \/ Listen
    \/ ListenReply
    \/ \E device \in ArgDevices, port \in ArgPorts : Connect(device, port)
    \/ ConnectReply
    \/ \E xlo \in BOOLEAN : Process(xlo)
    \/ \E f \in ReplyFrames(protocol, packet_tag - 1) : TwoDaemonSend(f)
    \/ PeerListen
    \/ \E device \in ArgDevices, port \in ArgPorts : PeerConnect(device, port)
    \/ \E f \in ReplyFrames(peer.protocol, peer.packet_tag - 1) : PeerReply(f)

SpecTwo == TwoInit /\ [][TwoNext]_vars

(* ---------------------------------------------------------------------- *)
(* USBMux facade after construction: process() on the listener, and        *)
(* connect(), which constructs a Connection of its own (held in peer) on   *)
(* a new socket; the daemon answers that socket's one request at once.     *)
(* ---------------------------------------------------------------------- *)
\* USBMux.connect calling connect() on the listener itself
MuxConnectTo_on_listener(device, port) ==
    /\ mux = "ready"
    /\ Connect(device, port)

\* USBMux.connect(device, port) up to the blocking read: Connection(
\* self.__protocol, self.__socket_path), then its connect(): tag 1 is taken
\* and the CONNECT request is sent
MuxConnectTo(device, port) ==
    /\ mux = "ready"
    /\ peer.pc = "idle"
    /\ LET connector == [NoPeer EXCEPT !.protocol = protocol]
           s == send_packet(connector.protocol, FALSE, FALSE,
                            TYPE_CONNECT(connector.protocol), 1,
                            [Payload EXCEPT !.DeviceID = device.device_id,
                                            !.PortNumber = port_number(port)])
       IN peer' = IF s.exc # NoErr
                  THEN [connector EXCEPT !.packet_tag = 2,
                                         !.result = Result("connect", s.exc, "None")]
                  ELSE [connector EXCEPT !.packet_tag = 2,
                                         !.sent = << s.frame >>,
                                         !.pc = "reply",
                                         !.pending = [op |-> "connect", tag |-> 1]]
    /\ UNCHANGED <<connvars, muxvars, sock, arg, codec, default_payload, wire>>

\* USBMux.connect from the reply on: the connector's connect() returns its
\* socket or raises
MuxConnectToReply(f) ==
    /\ mux = "ready"
    /\ PeerReply(f)

MuxInit ==
    /\ protocol = "Binary"
    /\ packet_tag = 1
    /\ devices = << >>
    /\ connected = FALSE
    /\ closed = FALSE
    /\ rx = << >>
    /\ sent = << >>
    /\ pc = "idle"
    /\ pending = NoPending
    /\ result = Result("none", NoErr, "None")
    /\ mux = "binary"
    /\ attempts = << >>
    /\ sock = NoSock
    /\ arg = NoArg
    /\ codec = NoCodec
    /\ default_payload = Payload
    /\ peer = NoPeer
    /\ wire = NoWire

MuxNext ==
    \/ \E reachable \in BOOLEAN : MuxConnect(reachable)
    \/ MuxListenReply
    \/ \E xlo \in BOOLEAN : MuxProcess(xlo)
    \/ \E f \in Frames(protocol, {0, packet_tag - 1}) : MuxDaemonSend(f)
    \/ \E device \in ArgDevices, port \in ArgPorts : MuxConnectTo(device, port)
    \/ \E f \in Frames(peer.protocol, {0, 1}) : MuxConnectToReply(f)

SpecMux == MuxInit /\ [][MuxNext]_vars

(* ---------------------------------------------------------------------- *)
(* Specification of the CONNECT request: one connect() call on a new       *)
(* Connection, for every 16-bit port and the ends of the device id range   *)
(* that fit the model's integers.                                          *)
(* ---------------------------------------------------------------------- *)
PortRange == 0..65535
DeviceIds == {0, 2147483647}

PortInit ==
    /\ protocol \in Protocols
    /\ packet_tag = 1
    /\ devices = << >>
    /\ connected = FALSE
    /\ closed = FALSE
    /\ rx = << >>
    /\ sent = << >>
    /\ pc = "idle"
    /\ pending = NoPending
    /\ result = Result("none", NoErr, "None")
    /\ mux = "none"
    /\ attempts = << >>
    /\ sock = NoSock
    /\ arg \in [device_id : DeviceIds, port : PortRange]
    /\ codec = NoCodec
    /\ default_payload = Payload
    /\ peer = NoPeer
    /\ wire = NoWire

\* connect(device, port) with the arguments chosen
ConnectArg ==
    /\ packet_tag = 1
    /\ Connect(Device(arg.device_id, None, NoneStr, None), arg.port)

PortNext == ConnectArg

SpecPort == PortInit /\ [][PortNext]_vars

(* ---------------------------------------------------------------------- *)
(* Specification of the codecs called directly.                            *)
(*   Plist: send_packet(request, tag, payload) on a payload with any       *)
(*   subset of its fields set, then get_packet on the frame it wrote       *)
(*   (codec.state "input" -> "sent" -> "decoded", or "raised").            *)
(*   Binary: get_packet on a DEVICE_ADD frame ("received" -> "decoded" or  *)
(*   "raised").                                                            *)
(*   Plist: get_packet on a frame the daemon wrote ("incoming" -> "taken"  *)
(*   or "refused").                                                        *)
(* ---------------------------------------------------------------------- *)
FullProperties ==
    [present |-> TRUE, ConnectionType |-> "USB", DeviceID |-> 1,
     LocationID |-> 0, ProductID |-> 4776, SerialNumber |-> "ABC123",
     UDID |-> "udid"]

PayloadInputs ==
    [ClientVersionString : {Payload.ClientVersionString},
     ProgName : {Payload.ProgName},
     MessageType : {NoneStr, "Listen"},
     Number : {None, 0, 17},
     DeviceID : {None, 1},
     PortNumber : {None, 32498},
     Properties : {NoProperties, FullProperties, Properties(4776, "ABC123", 0)},
     PairRecordID : {NoneStr, "udid"},
     PairRecordData : {NoneStr, "plist"}]

\* requests by name, and one by its legacy integer opcode
RequestNames == {"Listen", "Connect", TYPE_READ_PAIR}
RequestOpcodes == {BINARY_TYPE_CONNECT}

DeviceAddInputs ==
    {Frame(BINARY_VERSION, BINARY_TYPE_DEVICE_ADD, 0,
           BodyAdd(d, product, serial, location)) :
        d \in {1, 2}, product \in {4776}, serial \in {"ABC123", ""},
        location \in {0, 337}}

CodecInit ==
    /\ protocol = "Binary"
    /\ packet_tag = 1
    /\ devices = << >>
    /\ connected = FALSE
    /\ closed = FALSE
    /\ rx = << >>
    /\ sent = << >>
    /\ pc = "idle"
    /\ pending = NoPending
    /\ result = Result("none", NoErr, "None")
    /\ mux = "none"
    /\ attempts = << >>
    /\ sock = NoSock
    /\ arg = NoArg
    /\ \/ \E payload \in PayloadInputs, request \in RequestNames :
             codec = [NoCodec EXCEPT !.p = "Plist", !.request = request,
                                     !.payload = payload, !.state = "input"]
       \/ \E payload \in PayloadInputs, request \in RequestOpcodes :
             codec = [NoCodec EXCEPT !.p = "Plist", !.request = request,
                                     !.payload = payload, !.state = "input"]
       \/ \E f \in DeviceAddInputs :
             codec = [NoCodec EXCEPT !.p = "Binary", !.frame = f,
                                     !.state = "received"]
       \/ \E f \in Frames("Plist", {0, 1}) :
             codec = [NoCodec EXCEPT !.p = "Plist", !.frame = f,
                                     !.state = "incoming"]
    /\ default_payload = Payload
    /\ peer = NoPeer
    /\ wire = NoWire

\* send_packet(request, 1, payload) on a codec that is not connected
CodecSend ==
    /\ codec.state = "input"
    /\ LET s == send_packet(codec.p, FALSE, FALSE, codec.request, 1,
                            codec.payload)
       IN codec' = [codec EXCEPT !.out = s, !.frame = s.frame,
                                 !.state = IF s.exc # NoErr THEN "raised"
                                           ELSE "sent"]
    /\ UNCHANGED <<connvars, muxvars, sock, arg, default_payload, peer, wire>>

\* get_packet() on the frame
CodecGet ==
    /\ codec.state \in {"sent", "received"}
    /\ LET r == get_packet(codec.p, FALSE, FALSE, codec.frame)
       IN codec' = [codec EXCEPT !.out = r,
                                 !.state = IF r.exc # NoErr THEN "raised"
                                           ELSE "decoded"]
    /\ UNCHANGED <<connvars, muxvars, sock, arg, default_payload, peer, wire>>

\* the Plist codec's get_packet() on a frame the daemon wrote
\* ("incoming" -> "taken", or "refused")
CodecReceive ==
    /\ codec.state = "incoming"
    /\ LET r == get_packet(codec.p, FALSE, FALSE, codec.frame)
       IN codec' = [codec EXCEPT !.out = r,
                                 !.state = IF r.exc # NoErr THEN "refused"
                                           ELSE "taken"]
    /\ UNCHANGED <<connvars, muxvars, sock, arg, default_payload, peer, wire>>

CodecNext == CodecSend \/ CodecGet \/ CodecReceive

SpecCodec == CodecInit /\ [][CodecNext]_vars

(* ---------------------------------------------------------------------- *)
(* Specification of a listener polled with process() on a stream the       *)
(* daemon writes byte by byte and may stop writing at any point.  The      *)
(* client's own steps are taken when they can be: a select() whose timeout *)
(* is finite returns, a recv() that has a byte to hand out returns.        *)
(* ---------------------------------------------------------------------- *)
WireInit ==
    /\ protocol = "Binary"
    /\ packet_tag = 1
    /\ devices = << >>
    /\ connected = FALSE
    /\ closed = FALSE
    /\ rx = << >>
    /\ sent = << >>
    /\ pc = "idle"
    /\ pending = NoPending
    /\ result = Result("none", NoErr, "None")
    /\ mux = "none"
    /\ attempts = << >>
    /\ sock = NoSock
    /\ arg = NoArg
    /\ codec = NoCodec
    /\ default_payload = Payload
    /\ peer = NoPeer
    /\ \E p \in Protocols, frames \in [1..MaxFrames -> WireFrames] :
          wire = [NoWire EXCEPT !.p = p, !.frames = frames]

WireNext ==
    \/ WireProcess
    \/ WireSelect
    \/ \E k \in 1..wire.size : WireRecv(k)
    \/ WireDaemonWrite

SpecWire ==
    /\ WireInit /\ [][WireNext]_vars
    /\ WF_vars(WireSelect)
    /\ WF_vars(\E k \in 1..wire.size : WireRecv(k))

(* ====================================================================== *)
(* Properties                                                              *)
(* ====================================================================== *)
\* What a frame is on the wire, read off its header and body directly
WireResult(p, f) ==
    IF p = "Binary"
    THEN f.version = 0 /\ f.opcode = 1 /\ f.body.fmt = "I"
    ELSE /\ f.version = 1 /\ f.opcode = 8 /\ f.body.fmt = "plist"
         /\ f.body.dict.MessageType = "Result"
WireNumber(p, f) == IF p = "Binary" THEN f.body.u32 ELSE f.body.dict.Number
WireDeviceAdd(p, f) ==
    IF p = "Binary"
    THEN f.version = 0 /\ f.opcode = 4 /\ f.body.fmt = "IH256sHI"
    ELSE /\ f.version = 1 /\ f.opcode = 8 /\ f.body.fmt = "plist"
         /\ f.body.dict.MessageType = "Attached"
WireDeviceRemove(p, f) ==
    IF p = "Binary"
    THEN f.version = 0 /\ f.opcode = 5 /\ f.body.fmt = "I"
    ELSE /\ f.version = 1 /\ f.opcode = 8 /\ f.body.fmt = "plist"
         /\ f.body.dict.MessageType = "Detached"
WireDeviceID(p, f) == IF p = "Binary" THEN f.body.u32 ELSE f.body.dict.DeviceID

\* steps: a call of listen() / connect() returns or raises after its read;
\* process() reads a frame
ListenReturns == pc = "reply" /\ pending.op = "listen" /\ pc' = "idle"
ConnectReturns == pc = "reply" /\ pending.op = "connect" /\ pc' = "idle"
ProcessReads == pc = "idle" /\ rx # << >> /\ rx' = Tail(rx)
\* a call of op ended in this step (it raised before its read, or it is process)
CallEnds(op) ==
    /\ pc = "idle" /\ pc' = "idle" /\ result'.op = op
    /\ (result' # result \/ packet_tag' # packet_tag)

\* C1: the tags of the request frames written to the stream are strictly
\* increasing, and each is a value the counter has already moved past: every
\* request takes the counter's value and increments it, so no tag is sent twice.
C1_TagsStrictlyIncreasing ==
    /\ \A i, j \in DOMAIN sent : i < j => sent[i].tag < sent[j].tag
    /\ \A i \in DOMAIN sent : sent[i].tag < packet_tag

\* two requests sent, the second one by get_pair_record
C1_Witness ==
    /\ Len(sent) = 2
    /\ sent[2].body.dict.MessageType = TYPE_READ_PAIR
    /\ sent[1].tag = 1 /\ sent[2].tag = 2

\* C2: connected never goes from true to false; it goes from false to true
\* only in the step where a connect() call returns the stream; and once it is
\* true no connect() call succeeds.
C2_ConnectedOnce ==
    [][ /\ connected => connected'
        /\ (~connected /\ connected') =>
              (ConnectReturns /\ result' = Result("connect", NoErr, "socket"))
        /\ (connected /\ CallEnds("connect")) => result'.exc # NoErr
      ]_vars

\* a connect() call made after the connection was connected has failed
C2_Witness ==
    /\ connected
    /\ result.op = "connect" /\ result.exc.kind = "MuxError"
    /\ Len(sent) = 1 /\ packet_tag = 3

\* C3 as stated: once connected, listen(), connect() and process() all fail
\* with the mux-already-connected error and neither write nor read.
C3_AllFailMuxConnected ==
    [][ connected =>
          /\ sent' = sent /\ rx' = rx /\ pc' = "idle"
          /\ \A op \in {"listen", "connect", "process"} :
                CallEnds(op) =>
                    result'.exc = MuxError("MUX_CONNECTED_ERROR", None, None)
      ]_vars

\* C3 amended: once connected, listen() and connect() fail with the
\* mux-already-connected error and process() fails with the
\* socket-is-connected error; none of them writes to or reads from the stream.
C3_FailWhenConnected ==
    [][ connected =>
          /\ sent' = sent /\ rx' = rx /\ pc' = "idle"
          /\ \A op \in {"listen", "connect", "process"} :
                CallEnds(op) =>
                    result'.exc =
                        IF op = "process"
                        THEN MuxError("SOCKET_IS_CONNECTED", None, None)
                        ELSE MuxError("MUX_CONNECTED_ERROR", None, None)
      ]_vars

\* process() was called on a connected Connection with a frame still unread
C3_Witness ==
    /\ connected /\ rx # << >>
    /\ result.op = "process"
    /\ result.exc = MuxError("SOCKET_IS_CONNECTED", None, None)

\* C4: the registry never holds two entries with the same non-null device_id.
C4_NoDuplicateDeviceId ==
    \A i, j \in DOMAIN devices :
        (i # j /\ devices[i].device_id # None) =>
            devices[i].device_id # devices[j].device_id

\* C5: process() reading a DEVICE_REMOVE frame whose DeviceID matches no
\* registry entry returns without error and leaves the registry unchanged.
C5_RemoveAbsentIsNoOp ==
    [][ ( /\ ProcessReads
          /\ WireDeviceRemove(protocol, Head(rx))
          /\ \A i \in DOMAIN devices :
                devices[i].device_id # WireDeviceID(protocol, Head(rx)) )
        => (result' = Result("process", NoErr, "None") /\ devices' = devices)
      ]_vars

\* C6: listen() writes one LISTEN request carrying the counter's value and
\* reads one frame; when that frame is a RESULT with the sent tag it returns
\* without error if Number is 0 or absent, and fails with listen-failed
\* carrying Number otherwise.
C6_Listen ==
    [][ /\ (pc = "idle" /\ pc' = "reply" /\ pending'.op = "listen") =>
              /\ Len(sent') = Len(sent) + 1
              /\ sent'[Len(sent')].tag = packet_tag
              /\ IF protocol = "Binary"
                 THEN sent'[Len(sent')].opcode = BINARY_TYPE_LISTEN
                 ELSE sent'[Len(sent')].body.dict.MessageType = "Listen"
        /\ ( /\ ListenReturns
             /\ WireResult(protocol, Head(rx))
             /\ Head(rx).tag = pending.tag ) =>
              /\ rx' = Tail(rx) /\ sent' = sent
              /\ LET number == WireNumber(protocol, Head(rx))
                 IN IF number = 0 \/ number = None
                    THEN result' = Result("listen", NoErr, "None")
                    ELSE result' = Result("listen",
                                          MuxError("LISTEN_FAILED", number, None),
                                          "None")
      ]_vars

\* listen() has failed on a reply with Number 17
C6_Witness ==
    /\ result = Result("listen", MuxError("LISTEN_FAILED", 17, None), "None")
    /\ ~connected

\* C7: connect() sets connected and returns the stream exactly when the
\* frame it reads is a RESULT with the sent tag and a non-zero Number; on a
\* RESULT with the sent tag and Number zero or absent it fails with
\* connection-failed and connected stays false.
C7_Connect ==
    [][ ConnectReturns =>
          LET f == Head(rx)
              reply == WireResult(protocol, f) /\ f.tag = pending.tag
              number == WireNumber(protocol, f)
          IN /\ connected' <=> (reply /\ number # 0 /\ number # None)
             /\ connected' <=> (result' = Result("connect", NoErr, "socket"))
             /\ (reply /\ (number = 0 \/ number = None)) =>
                   result' = Result("connect",
                                    MuxError("CONNECTION_FAILED", number, None),
                                    "None")
      ]_vars

\* connect() has returned the stream
C7_Witness ==
    /\ connected /\ result = Result("connect", NoErr, "socket")
    /\ pc = "idle"

\* C8: connect() reading a RESULT whose tag differs from the tag it sent fails
\* with tag-mismatch (naming both tags) and connected stays false.
C8_TagMismatch ==
    [][ (ConnectReturns /\ WireResult(protocol, Head(rx))
            /\ Head(rx).tag # pending.tag) =>
          /\ result' = Result("connect",
                              MuxError("TAG_MISMATCH", pending.tag, Head(rx).tag),
                              "None")
          /\ ~connected /\ ~connected'
      ]_vars

\* connect() has failed with tag-mismatch on a reply that reported success
C8_Witness ==
    /\ result.op = "connect" /\ result.exc.msg = "TAG_MISMATCH"
    /\ ~connected

\* C9: listen() or connect() reading a DEVICE_ADD frame instead of a RESULT
\* fails with invalid-packet-type, does not set connected, and ends there
\* without reading a further frame.
C9_DeviceAddInExchange ==
    [][ ((ListenReturns \/ ConnectReturns) /\ WireDeviceAdd(protocol, Head(rx))) =>
          /\ result'.exc.kind = "MuxError"
          /\ result'.exc.msg = "INVALID_PACKET_TYPE"
          /\ result'.ret = "None"
          /\ ~connected'
          /\ rx' = Tail(rx)
      ]_vars

\* C10: facade construction first runs a Binary attempt; it runs a Plist
\* attempt exactly when the Binary attempt's reply had a version other than 0
\* (the version-mismatch error); a Plist attempt whose reply is a RESULT with
\* the sent tag and Number 0 succeeds; every other error ends construction
\* with that error and no further attempt, so at most two attempts are made.
C10_Fallback ==
    [][ /\ attempts' # attempts =>
              /\ attempts' = Append(attempts, IF attempts = << >> THEN "Binary"
                                              ELSE "Plist")
              /\ Len(attempts') <= 2
              /\ attempts # << >> => result.exc.kind = "MuxVersionError"
        /\ (mux = "listening" /\ mux' # mux) =>
              LET f == Head(rx)
              IN /\ mux' = "plist" <=>
                       (protocol = "Binary" /\ f.version # BINARY_VERSION)
                 /\ mux' = "plist" => result'.exc.kind = "MuxVersionError"
                 /\ ( /\ protocol = "Plist" /\ WireResult("Plist", f)
                      /\ f.tag = pending.tag /\ WireNumber("Plist", f) = 0 )
                       => mux' = "ready"
                 /\ mux' = "ready" <=> result'.exc = NoErr
                 /\ mux' = "failed" => result'.exc # NoErr
        /\ mux \in {"failed", "ready"} => (mux' = mux /\ attempts' = attempts)
      ]_vars

\* the facade is constructed by the Plist attempt after the Binary one
C10_Witness == mux = "ready" /\ attempts = <<"Binary", "Plist">>

\* C11: when listen(), connect() or process() fails, the tag counter, the
\* registry and the connected flag are what they were before the call (for
\* listen() and connect() the counter before the call is the tag the call
\* took); the socket is closed by a failing call only when process() saw an
\* exceptional condition.
C11_StateUnchangedOnFailure ==
    [][ /\ \A op \in {"listen", "connect", "process"} :
              (CallEnds(op) /\ result'.exc # NoErr) =>
                  /\ packet_tag' = packet_tag
                  /\ devices' = devices
                  /\ connected' = connected
                  /\ closed' # closed => result'.exc.msg = "SOCKET_LISTENER_ERROR"
        /\ ((ListenReturns \/ ConnectReturns) /\ result'.exc # NoErr) =>
              /\ packet_tag' = pending.tag
              /\ devices' = devices
              /\ connected' = connected
              /\ closed' = closed
      ]_vars

\* C12: every failure of listen(), connect() or process() on an open socket,
\* whatever frame the daemon sent, is a MuxError or a MuxVersionError.
C12_OnlyMuxErrors ==
    [][ \A op \in {"listen", "connect", "process"} :
          (~closed /\ result'.op = op /\ result' # result) =>
              result'.exc.kind \in {"None", "MuxError", "MuxVersionError"}
      ]_vars

\* C13: receive(n), n >= 1, returns exactly the next n bytes of the stream in
\* order and leaves the stream just after the n-th; it raises the
\* connection-broken error only after a recv that returned no byte, with fewer
\* than n bytes collected; every recv that returns a byte brings the call
\* nearer to its end (no more recv calls than bytes collected), and a call in
\* its loop eventually returns or raises.
C13_ReceiveSafe ==
    /\ sock.taken = sock.start + Len(sock.message)
    /\ sock.message = SubSeq(sock.written, sock.start + 1, sock.taken)
    /\ (sock.state = "returned" /\ sock.size >= 1) =>
          /\ Len(sock.message) = sock.size
          /\ sock.reads <= sock.size
    /\ sock.state = "loop" =>
          (Len(sock.message) < sock.size /\ sock.reads <= Len(sock.message))
    /\ sock.state = "raised" =>
          /\ sock.exc = MuxError("SOCKET_CONNECTION_BROKEN", None, None)
          /\ Len(sock.message) < sock.size
          /\ sock.peer_closed /\ sock.taken = Len(sock.written)
    /\ sock.state # "raised" => sock.exc = NoErr

C13_Receive ==
    /\ []C13_ReceiveSafe
    /\ (sock.state = "loop") ~> (sock.state \in {"returned", "raised"})

\* a second receive(3) has returned bytes that arrived in more than one chunk
C13_Witness ==
    /\ sock.state = "returned" /\ sock.size = 3 /\ sock.reads >= 2
    /\ sock.start = 1 /\ sock.message = <<65, 0, 65>>

\* C14: the CONNECT request connect(device, port) writes carries the device's
\* id unchanged and a port value in [0, 65535] whose high byte is the port's
\* low byte and whose low byte is the port's high byte; swapping that value
\* again gives the port back.
C14_PortByteSwap ==
    sent # << >> =>
        LET body == sent[1].body
            carried == body.dict
        IN /\ body.fmt = IF protocol = "Binary" THEN "IH" ELSE "plist"
           /\ carried.DeviceID = arg.device_id
           /\ carried.PortNumber \in 0..65535
           /\ carried.PortNumber \div 256 = arg.port % 256
           /\ carried.PortNumber % 256 = arg.port \div 256
           /\ port_number(carried.PortNumber) = arg.port

\* the request for port 62078 (0xF27E) of the largest device id carries 0x7EF2
C14_Witness ==
    /\ Len(sent) = 1 /\ arg.port = 62078 /\ arg.device_id = 2147483647
    /\ sent[1].body.dict.PortNumber = 32498
    /\ sent[1].body.fmt = "IH"

\* C15: the Plist codec's send_packet followed by its get_packet on the frame
\* written yields a record in which every field the payload left out is None
\* and every field it set has its value, the nested Properties record
\* included, and Properties is None when the payload had none (MessageType
\* is the request the payload was sent as).
C15_PlistRoundTrip ==
    (codec.p = "Plist" /\ codec.state \in {"raised", "decoded"}) =>
        /\ codec.state = "decoded"
        /\ codec.out.data =
              [codec.payload EXCEPT
                 !.MessageType = IF ToString(codec.request) = "2"
                                 THEN "Connect" ELSE codec.request]

\* C16: the Binary codec decodes a DEVICE_ADD frame without error into a
\* payload with the body's DeviceID and a Properties record holding the
\* body's ProductID, LocationID and the serial field up to its first NUL.
C16_BinaryDeviceAddDecode ==
    (codec.p = "Binary" /\ codec.state \in {"raised", "decoded"}) =>
        /\ codec.state = "decoded"
        /\ codec.out.exc = NoErr
        /\ codec.out.response = BINARY_TYPE_DEVICE_ADD
        /\ codec.out.data.DeviceID = codec.frame.body.dict.DeviceID
        /\ codec.out.data.Properties = codec.frame.body.dict.Properties

\* C17: two Connections share no mutable state: a step of one Connection
\* changes nothing the other reads or writes, neither its tag counter,
\* registry, connected flag and frames nor the payload object its listen()
\* builds the request from.
C17_NoSharedState ==
    [][ /\ connvars' # connvars =>
              (peer' = peer /\ default_payload' = default_payload)
        /\ peer' # peer =>
              (connvars' = connvars /\ default_payload' = default_payload)
      ]_vars

\* C18: after process() has read a DEVICE_REMOVE frame with DeviceID d the
\* registry holds no entry with id d, and the entries with another id are all
\* there in their order.
C18_RemoveAllEntries ==
    [][ (ProcessReads /\ WireDeviceRemove(protocol, Head(rx))) =>
          LET d == WireDeviceID(protocol, Head(rx))
              Other(device) == device.device_id # d
          IN devices' = SelectSeq(devices, Other)
      ]_vars

\* C19: process() reading a DEVICE_ADD frame returns without error and appends
\* one Device to the registry, built from the frame's DeviceID and, when the
\* frame has Properties, its ProductID, SerialNumber and LocationID; the tag
\* counter, the connected flag and the frames sent are unchanged.
C19_DeviceAddAppends ==
    [][ (ProcessReads /\ WireDeviceAdd(protocol, Head(rx))) =>
          LET d == Head(rx).body.dict
              device == IF d.Properties.present
                        THEN Device(d.DeviceID, d.Properties.ProductID,
                                    d.Properties.SerialNumber,
                                    d.Properties.LocationID)
                        ELSE Device(d.DeviceID, None, NoneStr, None)
          IN /\ result' = Result("process", NoErr, "None")
             /\ devices' = Append(devices, device)
             /\ packet_tag' = packet_tag /\ connected' = connected
             /\ sent' = sent
      ]_vars

\* C20: process() on a Connection that is not connected, whose socket is open,
\* has nothing to read and reports no exceptional condition (the call does
\* not close it), returns without error, reads nothing and leaves the
\* registry, the tag counter and the connected flag as they were.
C20_ProcessNoOp ==
    [][ ( /\ pc = "idle" /\ ~connected /\ ~closed /\ rx = << >>
          /\ result'.op = "process" /\ result' # result /\ ~closed' ) =>
          /\ result' = Result("process", NoErr, "None")
          /\ rx' = rx /\ sent' = sent
          /\ devices' = devices /\ packet_tag' = packet_tag
          /\ connected' = connected
      ]_vars

\* process() has returned on a listening Connection with nothing to read
C20_Witness ==
    /\ result = Result("process", NoErr, "None")
    /\ rx = << >> /\ devices = << >> /\ ~connected /\ ~closed
    /\ Len(sent) = 1 /\ packet_tag = 2

\* the frame is one of the codec's own format, and its logical opcode: the
\* header's opcode for Binary, the body's MessageType for Plist
WireOwnFormat(p, f) ==
    IF p = "Binary" THEN f.version = 0
    ELSE f.version = 1 /\ f.opcode = 8 /\ f.body.fmt = "plist"
WireOpcode(p, f) ==
    IF p = "Binary" THEN f.opcode
    ELSE IF f.body.dict.MessageType = NoneStr THEN ""
    ELSE f.body.dict.MessageType

\* C21: process() reading a frame whose opcode is neither DEVICE_ADD nor
\* DEVICE_REMOVE leaves the registry unchanged and fails with unexpected-result
\* when the opcode is RESULT and with invalid-packet-type for any other opcode.
C21_ProcessOtherOpcode ==
    [][ ( /\ ProcessReads
          /\ WireOwnFormat(protocol, Head(rx))
          /\ WireOpcode(protocol, Head(rx)) # TYPE_DEVICE_ADD(protocol)
          /\ WireOpcode(protocol, Head(rx)) # TYPE_DEVICE_REMOVE(protocol) ) =>
          LET response == WireOpcode(protocol, Head(rx))
          IN /\ devices' = devices
             /\ result' = Result("process",
                     IF response = TYPE_RESULT(protocol)
                     THEN MuxErrorResponse("UNEXPECTED_RESULT", response)
                     ELSE MuxErrorResponse("INVALID_PACKET_TYPE", response),
                     "None")
      ]_vars

\* C22: a process() call whose readiness wait (made when the Connection is
\* not connected and its socket is open) reports an exceptional condition
\* closes the socket and fails with the listener-socket-error; it reads no
\* frame and leaves the registry as it was, also when a frame is waiting.
C22_ExceptionalCloses ==
    [][ (~connected /\ ~closed /\ Process(TRUE)) =>
          /\ closed'
          /\ result' = Result("process",
                              MuxError("SOCKET_LISTENER_ERROR", None, None), "None")
          /\ rx' = rx /\ devices' = devices
          /\ packet_tag' = packet_tag /\ connected' = connected /\ sent' = sent
      ]_vars

\* process() failed on an exceptional condition with a frame left unread and
\* a device registered
C22_Witness ==
    /\ closed /\ rx # << >> /\ Len(devices) = 1
    /\ result = Result("process",
                       MuxError("SOCKET_LISTENER_ERROR", None, None), "None")

\* the registry after an attach / detach event has been applied to it: an
\* attach appends the device of the frame, a detach removes every entry with
\* the frame's DeviceID, any other frame changes nothing
WireApply(p, f, registry) ==
    IF WireDeviceAdd(p, f) THEN
        LET d == f.body.dict
        IN Append(registry,
                  IF d.Properties.present
                  THEN Device(d.DeviceID, d.Properties.ProductID,
                              d.Properties.SerialNumber, d.Properties.LocationID)
                  ELSE Device(d.DeviceID, None, NoneStr, None))
    ELSE IF WireDeviceRemove(p, f) THEN
        LET Other(device) == device.device_id # WireDeviceID(p, f)
        IN SelectSeq(registry, Other)
    ELSE registry

\* C23: a process() call that finds the stream readable (and no exceptional
\* condition) takes exactly the oldest unread frame off the stream and applies
\* its event to the registry; so k queued attach/detach frames take k calls
\* and are applied in arrival order, none skipped and none applied twice.
C23_OneFramePerCall ==
    [][ (~connected /\ ~closed /\ rx # << >> /\ Process(FALSE)) =>
          /\ rx' = Tail(rx)
          /\ devices' = WireApply(protocol, Head(rx), devices)
      ]_vars

\* the stream offset at which the frame after the first n frames begins
RECURSIVE WireBoundary(_, _)
WireBoundary(frames, n) ==
    IF n = 0 THEN 0
    ELSE WireBoundary(frames, n - 1) + 16 + Len(frames[n].body)

WireInvalidType(p, f) ==
    IF p = "Binary" THEN f.opcode \notin {1, 4, 5} ELSE f.opcode # 8

\* C24: get_packet takes exactly total_length bytes off the stream for each
\* frame: between calls the stream stands at the boundary after the frames
\* read so far, inside a call it stands within the next frame (4 bytes of
\* length, then total_length - 4), and this also after a call that failed with
\* version mismatch or invalid response type; the i-th call fails with version
\* mismatch exactly when the i-th frame's version is not the codec's, and with
\* invalid response type exactly when its version is the codec's and its
\* opcode is one the codec does not take, so each call saw its own frame.
C24_FrameBoundaries ==
    LET boundary == WireBoundary(wire.frames, wire.calls)
    IN /\ wire.calls <= Len(wire.frames) /\ Len(wire.outs) = wire.calls
       /\ wire.state \in {"idle", "select"} => wire.taken = boundary
       /\ wire.state = "length" =>
             (wire.taken = boundary + Len(wire.message) /\ Len(wire.message) < 4)
       /\ wire.state = "body" =>
             /\ wire.taken = boundary + 4 + Len(wire.message)
             /\ wire.taken < WireBoundary(wire.frames, wire.calls + 1)
             /\ wire.size = 16 + Len(wire.frames[wire.calls + 1].body) - 4
       /\ \A i \in 1..wire.calls :
             LET f == wire.frames[i]
             IN /\ f.version # VERSION(wire.p) <=>
                      wire.outs[i] = MuxVersionError(VERSION(wire.p), f.version)
                /\ (f.version = VERSION(wire.p) /\ WireInvalidType(wire.p, f)) <=>
                      wire.outs[i] = MuxErrorResponse(
                                         "INVALID_INCOMING_RESPONSE_TYPE", f.opcode)

\* the first get_packet failed with version mismatch on an 18-byte frame and
\* the second returned the 20-byte frame behind it
C24_Witness ==
    /\ wire.calls = 2 /\ wire.state = "idle" /\ wire.taken = 38
    /\ wire.outs[1].kind = "MuxVersionError" /\ wire.outs[2] = NoErr

\* C25: a process() call with a finite timeout ends, whatever the daemon
\* writes or leaves unwritten.
C25_ProcessEnds == (wire.state # "idle") ~> (wire.state = "idle")

\* the frame send_packet wrote carries the request's name in its body, under
\* header version 1 and outer opcode 8
C26_Sent ==
    (codec.p = "Plist" /\ codec.state = "sent") =>
        /\ codec.frame.version = 1 /\ codec.frame.opcode = 8
        /\ codec.frame.tag = 1
        /\ codec.frame.body.fmt = "plist"
        /\ codec.frame.body.dict.MessageType =
              IF ToString(codec.request) = "2" THEN "Connect" ELSE codec.request

\* get_packet on a version-1 frame with outer opcode 8 returns the body's
\* MessageType, or "" when the body has none
C26_Received ==
    ( /\ codec.p = "Plist"
      /\ codec.state \in {"decoded", "raised", "taken", "refused"}
      /\ codec.frame.version = 1 /\ codec.frame.opcode = 8 ) =>
        /\ codec.out.exc = NoErr
        /\ codec.out.tag = codec.frame.tag
        /\ codec.out.response =
              IF codec.frame.body.dict.MessageType = NoneStr THEN ""
              ELSE codec.frame.body.dict.MessageType

\* C26 as stated: every frame the Plist codec sends has version 1 and outer
\* opcode 8 and carries the request's name (the caller's string unchanged) as
\* the body's MessageType; on receive every frame whose outer opcode is not 8
\* fails with invalid-incoming-response-type, and otherwise the opcode returned
\* is the body's MessageType, or "" when there is none.
C26_PlistOpcodeAnyVersion ==
    /\ C26_Sent
    /\ C26_Received
    /\ ( /\ codec.p = "Plist" /\ codec.state \in {"taken", "refused"}
         /\ codec.frame.opcode # 8 ) =>
           codec.out.exc = MuxErrorResponse("INVALID_INCOMING_RESPONSE_TYPE",
                                            codec.frame.opcode)

\* C26 amended: as stated for the frames sent; on receive a frame whose
\* version is not 1 fails with version mismatch whatever its opcode, a
\* version-1 frame whose outer opcode is not 8 fails with
\* invalid-incoming-response-type, and a version-1 frame with outer opcode 8
\* returns the body's MessageType, or "" when there is none.
C26_PlistOpcode ==
    /\ C26_Sent
    /\ C26_Received
    /\ (codec.p = "Plist" /\ codec.state \in {"taken", "refused"}) =>
          /\ codec.frame.version # 1 =>
                codec.out.exc = MuxVersionError(1, codec.frame.version)
          /\ (codec.frame.version = 1 /\ codec.frame.opcode # 8) =>
                codec.out.exc = MuxErrorResponse("INVALID_INCOMING_RESPONSE_TYPE",
                                                 codec.frame.opcode)

\* a frame without MessageType was taken and gave the empty opcode
C26_Witness ==
    /\ codec.p = "Plist" /\ codec.state = "taken"
    /\ codec.frame.opcode = 8 /\ codec.frame.body.dict.MessageType = NoneStr
    /\ codec.out.response = ""

\* C27: once the facade is constructed, no step makes the listener connected
\* or moves its tag counter, its registry changes only when process() reads a
\* frame, a step of connect() (a step of the connector) changes nothing of the
\* listener and runs on a Connection with the protocol construction selected,
\* and process() never fails with an already-connected error.
C27_ListenerNeverConnected ==
    [][ mux = "ready" =>
          /\ ~connected /\ ~connected'
          /\ packet_tag' = packet_tag
          /\ devices' # devices => ProcessReads
          /\ peer' # peer => (connvars' = connvars /\ peer'.protocol = protocol)
          /\ result'.op = "process" =>
                result'.exc.msg \notin {"SOCKET_IS_CONNECTED", "MUX_CONNECTED_ERROR"}
      ]_vars

\* the connector of a connect() call is connected, and process() has run on
\* the listener of a facade constructed by fallback
C27_Witness ==
    /\ mux = "ready" /\ attempts = <<"Binary", "Plist">>
    /\ peer.connected /\ peer.result = Result("connect", NoErr, "socket")
    /\ ~connected /\ result = Result("process", NoErr, "None")

\* C28: get_pair_record(udid) writes one ReadPairRecord request carrying the
\* counter's value and increments the counter; when the frame it reads is a
\* plist frame whose tag differs from the tag sent, it fails with the
\* tag-mismatch MuxError naming both tags and returns no record.
C28_PairRecordTagMismatch ==
    [][ /\ (pc = "idle" /\ pc' = "reply" /\ pending'.op = "get_pair_record") =>
              /\ Len(sent') = Len(sent) + 1
              /\ sent'[Len(sent')].tag = packet_tag
              /\ sent'[Len(sent')].body.dict.MessageType = TYPE_READ_PAIR
              /\ packet_tag' = packet_tag + 1
        /\ ( /\ pc = "reply" /\ pending.op = "get_pair_record" /\ pc' = "idle"
             /\ WireOwnFormat("Plist", Head(rx))
             /\ Head(rx).tag # pending.tag ) =>
              result' = Result("get_pair_record",
                               MuxError("TAG_MISMATCH", pending.tag, Head(rx).tag),
                               "None")
      ]_vars
====
